---- MODULE Spec2Model ----
(***************************************************************************)
(* State-machine model of smart-agent's model session layer:               *)
(*   - ModelManager / ModelInterface (src/llm-interface): load / unload of *)
(*     the single active llama.cpp engine and the name -> interface map;   *)
(*   - Application (src/Application.cpp): startLLM / stopLLM / sendPrompt  *)
(*     and the threads they start;                                         *)
(*   - ModelInterface::generateResponse, the token loop that writes to a   *)
(*     pipe.                                                               *)
(* Spec is the ModelManager machine, AppSpec the Application machine,      *)
(* StreamSpec the Application machine started in a running session with    *)
(* long replies, GenSpec the generateResponse machine.                     *)
(***************************************************************************)
EXTENDS Integers, Sequences, FiniteSets, TLC

\* ------------------------------------------------------------------------
\* Bounds and inputs
\* ------------------------------------------------------------------------

\* Model names passed to loadModel.
Names == {"A", "B", "missing"}

\* Names for which <m_modelsDir>/<name> exists on disk.
ModelFiles == {"A", "B"}

\* Values passed to setModelDirectory ("" is the unset directory).
Dirs == {"", "models"}

\* How many engine-initialization failures (llama_model_load_from_file or
\* llama_init_from_model returning null) a behaviour may contain.
MaxEngineFailures == 2

\* Null pointer / absent map entry / invalid future.
NULL == 0

\* Models listed in the "Installed LLMs" window (Application::llms).
LLMs == {"A", "B"}

\* Texts the user can submit in the prompt window ("" is Enter on an empty box).
Prompts == {"", "p"}

\* Clicks on Run or Stop and prompt submissions in a behaviour.
MaxEvents == 3

\* Response lines the server sends for one prompt before its done line.
MaxChunks == 1

\* Failures to open the request file, open the pipe or launch the task in a behaviour.
MaxIOFailures == 1

\* Number of buffered chunks at which streamLLMResponse appends them to the history.
ChunkFlushThreshold == 5

\* Response lines per prompt in the single-session streaming specification
\* (more than ChunkFlushThreshold, so that a reply is flushed and then buffers again).
MaxStreamChunks == 6

\* llama_n_ctx(m_context): cells of the KV cache.
MaxContext == 5

\* Largest number of tokens a prompt is tokenized into.
MaxPromptTokens == 2

\* Calls of ModelInterface::generateResponse in a behaviour.
MaxGenCalls == 2

\* Entries of the models directory in a behaviour of the listing specification.
MaxEntries == 3

\* Files the user attaches as context at most.
MaxFiles == 3

VARIABLES
    m_modelsDir,    \* ModelManager::m_modelsDir
    m_modelMap,     \* ModelManager::m_modelMap : name -> object id (NULL = no entry)
    m_loadedModel,  \* ModelManager::m_loadedModel : object id or NULL
    heap,           \* every ModelInterface ever constructed, by object id
    orphans,        \* native llama_model allocations whose pointer was overwritten
    failures,       \* engine-initialization failures so far
    mpc,            \* position inside ModelManager::loadModel ("idle" between calls)
    call,           \* the call in progress / the last call: arguments, pre-state, result
    crashed,        \* the process died on a double free
    isLLMRunning,           \* Application::isLLMRunning
    currentLLM,             \* Application::currentLLM
    showPromptWindow,       \* Application::showPromptWindow
    conversationHistory,    \* Application::conversationHistory, as a sequence of pieces
    isWaitingForResponse,   \* Application::isWaitingForResponse
    stopRequested,          \* Application::stopRequested
    llmFuture,              \* Application::llmFuture : task id or NULL (not valid)
    isShuttingDown,         \* Application::isShuttingDown
    showShutdownWindow,     \* Application::showShutdownWindow
    ui,                     \* the thread running startLLM / stopLLM / sendPrompt: position, return stack, arguments
    workers,                \* the std::async tasks started by sendPrompt, by task id
    loaders,                \* the detached load threads started by startLLM
    nEvents,                \* Run / Stop clicks and prompt submissions so far
    ioFailures,             \* request-file / pipe / launch failures so far
    replyLines,             \* response lines the server sends for one prompt before its done line
    gen,                    \* the call of ModelInterface::generateResponse: position, locals, writeFd
    fsys,                   \* the file system at the configured models directory
    fetched,                \* the last call of ModelManager::fetchModels: directory used, result
    files,                  \* ContextManager::files
    fileNames,              \* ContextManager::fileNames
    ctxCall,                \* the last call on the ContextManager: operation, index, size before
    fmt                     \* ModelInterface::m_messages, m_prevLength and the last result of formatPrompt

appVars == <<isLLMRunning, currentLLM, showPromptWindow, conversationHistory,
             isWaitingForResponse, stopRequested, llmFuture, isShuttingDown,
             showShutdownWindow, ui, workers, loaders, nEvents, ioFailures, replyLines>>

mgrVars == <<m_modelsDir, m_modelMap, m_loadedModel, heap, orphans, failures,
             mpc, call, crashed>>

genVars == <<gen>>

fetchVars == <<fsys, fetched>>

ctxVars == <<files, fileNames, ctxCall>>

fmtVars == <<fmt>>

\* ------------------------------------------------------------------------
\* ModelInterface
\* ------------------------------------------------------------------------

\* ModelInterface::ModelInterface : pointers zeroed, sampler chain allocated.
ModelInterface(path) ==
    [ m_modelPath |-> path,
      m_model     |-> "null",
      m_context   |-> "null",
      m_sampler   |-> "alloc",
      m_isLoaded  |-> FALSE,
      alive       |-> TRUE ]

\* ModelInterface::isLoaded
isLoaded(h, id) == h[id].m_isLoaded

\* Variant of ModelInterface::unload that forgets llama_free(m_context).
ModelInterface_unload_KeepContext(h, id) ==
    [h EXCEPT ![id] =
        IF @.m_isLoaded
        THEN [@ EXCEPT !.m_sampler = "freed", !.m_model = "freed", !.m_isLoaded = FALSE]
        ELSE [@ EXCEPT !.m_isLoaded = FALSE]]

\* ModelInterface::unload on object id of heap h: frees sampler, context and
\* model when the flag is set, and clears the flag.
ModelInterface_unload(h, id) ==
    [h EXCEPT ![id] =
        IF @.m_isLoaded
        THEN [@ EXCEPT !.m_sampler = "freed", !.m_context = "freed",
                       !.m_model = "freed", !.m_isLoaded = FALSE]
        ELSE [@ EXCEPT !.m_isLoaded = FALSE]]

\* ModelInterface::unload frees a pointer that is already freed (the sampler is
\* allocated only by the constructor): undefined behaviour.
UnloadDoubleFree(h, id) ==
    h[id].m_isLoaded /\ "freed" \in {h[id].m_sampler, h[id].m_context, h[id].m_model}

\* ModelInterface::~ModelInterface is empty: delete releases the object only.
ModelInterface_delete(h, id) == [h EXCEPT ![id].alive = FALSE]

\* ------------------------------------------------------------------------
\* ModelManager
\* ------------------------------------------------------------------------

NoCall ==
    [ op |-> "none", prevOp |-> "none", prevPre |-> NULL, name |-> "", preLoaded |-> NULL,
      obj |-> NULL, isNew |-> FALSE, loadOk |-> FALSE, ret |-> "none",
      nUnload |-> 0, nLoad |-> 0, preOrphans |-> 0 ]

\* ModelManager::ModelManager
MgrInit ==
    /\ m_modelsDir = ""
    /\ m_modelMap = [n \in Names |-> NULL]
    /\ m_loadedModel = NULL
    /\ heap = << >>
    /\ orphans = 0
    /\ failures = 0
    /\ mpc = "idle"
    /\ call = NoCall
    /\ crashed = FALSE

\* ModelManager::setModelDirectory
setModelDirectory(path) ==
    /\ mpc = "idle" /\ ~crashed
    /\ UNCHANGED <<appVars, genVars, fetchVars, ctxVars, fmtVars>>
    /\ m_modelsDir' = path
    /\ call' = [NoCall EXCEPT !.op = "setdir", !.prevOp = call.op, !.prevPre = call.preLoaded]
    /\ UNCHANGED <<m_modelMap, m_loadedModel, heap, orphans, failures, mpc, crashed>>

\* Variant of the body of unloadModel that resets the pointer without calling
\* ModelInterface::unload.
unloadModelBody_PointerOnly ==
    /\ m_loadedModel' = NULL
    /\ UNCHANGED <<heap, crashed>>

\* Body of ModelManager::unloadModel: the effect on heap, m_loadedModel, crashed.
\* A double free either kills the process at the free or goes unnoticed.
unloadModelBody ==
    IF m_loadedModel # NULL
    THEN \/ /\ heap' = ModelInterface_unload(heap, m_loadedModel)
            /\ m_loadedModel' = NULL
            /\ crashed' = FALSE
         \/ /\ UnloadDoubleFree(heap, m_loadedModel)
            /\ crashed' = TRUE
            /\ UNCHANGED <<heap, m_loadedModel>>
    ELSE UNCHANGED <<heap, m_loadedModel, crashed>>

\* Variant of unloadModel without the null check: m_loadedModel->unload() on a
\* null pointer kills the process.
unloadModel_NoNullCheck ==
    /\ mpc = "idle" /\ ~crashed
    /\ UNCHANGED <<appVars, genVars, fetchVars, ctxVars, fmtVars>>
    /\ IF m_loadedModel # NULL
       THEN unloadModelBody
       ELSE crashed' = TRUE /\ UNCHANGED <<heap, m_loadedModel>>
    /\ call' = [NoCall EXCEPT !.op = "unload", !.prevOp = call.op, !.prevPre = call.preLoaded,
                              !.preLoaded = m_loadedModel,
                              !.nUnload = 1,
                              !.preOrphans = orphans,
                              !.ret = IF crashed' THEN "pending" ELSE "void"]
    /\ UNCHANGED <<m_modelsDir, m_modelMap, orphans, failures, mpc>>

\* ModelManager::unloadModel called by a client.
unloadModel ==
    /\ mpc = "idle" /\ ~crashed
    /\ UNCHANGED <<appVars, genVars, fetchVars, ctxVars, fmtVars>>
    /\ unloadModelBody
    /\ call' = [NoCall EXCEPT !.op = "unload", !.prevOp = call.op, !.prevPre = call.preLoaded,
                              !.preLoaded = m_loadedModel,
                              !.nUnload = IF m_loadedModel # NULL THEN 1 ELSE 0,
                              !.preOrphans = orphans,
                              !.ret = IF crashed' THEN "pending" ELSE "void"]
    /\ UNCHANGED <<m_modelsDir, m_modelMap, orphans, failures, mpc>>

\* Variant of the entry of loadModel that skips the unload of lines 79-83.
loadModel_Enter_NoUnload(modelName) ==
    /\ mpc = "idle" /\ ~crashed
    /\ UNCHANGED <<appVars, genVars, fetchVars, ctxVars, fmtVars>>
    /\ call' = [NoCall EXCEPT !.op = "load", !.prevOp = call.op, !.prevPre = call.preLoaded,
                              !.name = modelName,
                              !.preLoaded = m_loadedModel,
                              !.preOrphans = orphans,
                              !.ret = "pending"]
    /\ mpc' = "lm_check"
    /\ UNCHANGED <<m_modelsDir, m_modelMap, m_loadedModel, heap, orphans, failures, crashed>>

\* ModelManager::loadModel, lines 79-83: unload whatever is loaded.
loadModel_Enter(modelName) ==
    /\ mpc = "idle" /\ ~crashed
    /\ UNCHANGED <<appVars, genVars, fetchVars, ctxVars, fmtVars>>
    /\ unloadModelBody
    /\ call' = [NoCall EXCEPT !.op = "load", !.prevOp = call.op, !.prevPre = call.preLoaded,
                              !.name = modelName,
                              !.preLoaded = m_loadedModel,
                              !.nUnload = IF m_loadedModel # NULL THEN 1 ELSE 0,
                              !.preOrphans = orphans,
                              !.ret = "pending"]
    /\ mpc' = "lm_check"
    /\ UNCHANGED <<m_modelsDir, m_modelMap, orphans, failures>>

\* ModelManager::loadModel, lines 85-98: directory set, model file exists.
loadModel_Check ==
    /\ mpc = "lm_check" /\ ~crashed
    /\ UNCHANGED <<appVars, genVars, fetchVars, ctxVars, fmtVars>>
    /\ IF m_modelsDir = ""
       THEN /\ call' = [call EXCEPT !.ret = "MODEL_DIRECTORY_NOT_SET"]
            /\ mpc' = "idle"
       ELSE IF call.name \notin ModelFiles
       THEN /\ call' = [call EXCEPT !.ret = "MODEL_NOT_FOUND"]
            /\ mpc' = "idle"
       ELSE /\ mpc' = "lm_find"
            /\ UNCHANGED call
    /\ UNCHANGED <<m_modelsDir, m_modelMap, m_loadedModel, heap, orphans, failures, crashed>>

\* Variant of the lookup of loadModel that never finds the name in m_modelMap.
loadModel_Find_NoLookup ==
    /\ mpc = "lm_find" /\ ~crashed
    /\ UNCHANGED <<appVars, genVars, fetchVars, ctxVars, fmtVars>>
    /\ heap' = Append(heap, ModelInterface(call.name))
    /\ call' = [call EXCEPT !.obj = Len(heap) + 1, !.isNew = TRUE]
    /\ mpc' = "ld_model"
    /\ UNCHANGED <<m_modelsDir, m_modelMap, m_loadedModel, orphans, failures, crashed>>

\* ModelManager::loadModel, lines 100-109 and 120-126: look the name up in
\* m_modelMap; reuse the interface found, or construct a new one.
loadModel_Find ==
    /\ mpc = "lm_find" /\ ~crashed
    /\ UNCHANGED <<appVars, genVars, fetchVars, ctxVars, fmtVars>>
    /\ IF m_modelMap[call.name] # NULL
       THEN LET mi == m_modelMap[call.name] IN
            IF ~isLoaded(heap, mi)
            THEN /\ call' = [call EXCEPT !.obj = mi, !.isNew = FALSE]
                 /\ mpc' = "ld_model"
                 /\ UNCHANGED <<heap, m_loadedModel>>
            ELSE /\ m_loadedModel' = mi
                 /\ call' = [call EXCEPT !.obj = mi, !.isNew = FALSE, !.ret = "ok"]
                 /\ mpc' = "idle"
                 /\ UNCHANGED heap
       ELSE /\ heap' = Append(heap, ModelInterface(call.name))
            /\ call' = [call EXCEPT !.obj = Len(heap) + 1, !.isNew = TRUE]
            /\ mpc' = "ld_model"
            /\ UNCHANGED m_loadedModel
    /\ UNCHANGED <<m_modelsDir, m_modelMap, orphans, failures, crashed>>

\* ModelInterface::load, lines 61-67: llama_model_load_from_file overwrites
\* m_model with a new model or with null.
load_Model ==
    /\ mpc = "ld_model" /\ ~crashed
    /\ UNCHANGED <<appVars, genVars, fetchVars, ctxVars, fmtVars>>
    /\ orphans' = orphans + (IF heap[call.obj].m_model = "alloc" THEN 1 ELSE 0)
    /\ \/ /\ heap' = [heap EXCEPT ![call.obj].m_model = "alloc"]
          /\ call' = [call EXCEPT !.nLoad = @ + 1]
          /\ mpc' = "ld_context"
          /\ UNCHANGED failures
       \/ /\ failures < MaxEngineFailures
          /\ failures' = failures + 1
          /\ heap' = [heap EXCEPT ![call.obj].m_model = "null"]
          /\ call' = [call EXCEPT !.nLoad = @ + 1, !.loadOk = FALSE]
          /\ mpc' = "lm_ret"
    /\ UNCHANGED <<m_modelsDir, m_modelMap, m_loadedModel, crashed>>

\* ModelInterface::load, lines 69-82: llama_init_from_model overwrites
\* m_context; the flag is set only when it is non-null.
load_Context ==
    /\ mpc = "ld_context" /\ ~crashed
    /\ UNCHANGED <<appVars, genVars, fetchVars, ctxVars, fmtVars>>
    /\ \/ /\ heap' = [heap EXCEPT ![call.obj].m_context = "alloc",
                                  ![call.obj].m_isLoaded = TRUE]
          /\ call' = [call EXCEPT !.loadOk = TRUE]
          /\ UNCHANGED failures
       \/ /\ failures < MaxEngineFailures
          /\ failures' = failures + 1
          /\ heap' = [heap EXCEPT ![call.obj].m_context = "null"]
          /\ call' = [call EXCEPT !.loadOk = FALSE]
    /\ mpc' = "lm_ret"
    /\ UNCHANGED <<m_modelsDir, m_modelMap, m_loadedModel, orphans, crashed>>

\* Variant of the return of loadModel that does not store a new interface in
\* m_modelMap.
loadModel_Return_NoStore ==
    /\ mpc = "lm_ret" /\ ~crashed
    /\ UNCHANGED <<appVars, genVars, fetchVars, ctxVars, fmtVars>>
    /\ IF ~call.loadOk
       THEN /\ heap' = IF call.isNew THEN ModelInterface_delete(heap, call.obj) ELSE heap
            /\ call' = [call EXCEPT !.ret = "MODEL_LOAD_ERROR"]
            /\ UNCHANGED m_loadedModel
       ELSE /\ m_loadedModel' = call.obj
            /\ call' = [call EXCEPT !.ret = "ok"]
            /\ UNCHANGED heap
    /\ mpc' = "idle"
    /\ UNCHANGED <<m_modelsDir, m_modelMap, orphans, failures, crashed>>

\* ModelManager::loadModel, lines 109-116 and 126-136: act on load()'s result.
loadModel_Return ==
    /\ mpc = "lm_ret" /\ ~crashed
    /\ UNCHANGED <<appVars, genVars, fetchVars, ctxVars, fmtVars>>
    /\ IF ~call.loadOk
       THEN /\ heap' = IF call.isNew THEN ModelInterface_delete(heap, call.obj) ELSE heap
            /\ call' = [call EXCEPT !.ret = "MODEL_LOAD_ERROR"]
            /\ UNCHANGED <<m_modelMap, m_loadedModel>>
       ELSE /\ m_modelMap' = IF call.isNew
                             THEN [m_modelMap EXCEPT ![call.name] = call.obj]
                             ELSE m_modelMap
            /\ m_loadedModel' = call.obj
            /\ call' = [call EXCEPT !.ret = "ok"]
            /\ UNCHANGED heap
    /\ mpc' = "idle"
    /\ UNCHANGED <<m_modelsDir, orphans, failures, crashed>>

MgrNext ==
    \/ \E path \in Dirs : setModelDirectory(path)
    \/ unloadModel
    \/ \E n \in Names : loadModel_Enter(n)
    \/ loadModel_Check
    \/ loadModel_Find
    \/ load_Model
    \/ load_Context
    \/ loadModel_Return

\* ---- ModelManager::fetchModels ----

\* What the models directory can contain: file name (stem and extension),
\* whether the entry is a regular file, and its size in hundredths of a GiB.
DirEntries ==
    { [stem |-> "a",     ext |-> ".gguf", regular |-> TRUE,  size |-> 200],
      [stem |-> "b",     ext |-> ".gguf", regular |-> TRUE,  size |-> 100],
      [stem |-> "c",     ext |-> ".gguf", regular |-> TRUE,  size |-> 1000],
      [stem |-> "d",     ext |-> ".gguf", regular |-> TRUE,  size |-> 100],
      [stem |-> "notes", ext |-> ".txt",  regular |-> TRUE,  size |-> 100],
      [stem |-> "sub",   ext |-> ".gguf", regular |-> FALSE, size |-> 0] }

\* States of the file system at the path "models": the status call fails, the
\* path is absent, it cannot be enumerated, or it is a directory with entries.
FileSystems ==
    {[status |-> st, readable |-> TRUE, entries |-> {}] : st \in {"error", "absent"}}
    \cup {[status |-> "present", readable |-> FALSE, entries |-> {}]}
    \cup {[status |-> "present", readable |-> TRUE, entries |-> S] :
             S \in {T \in SUBSET DirEntries : Cardinality(T) <= MaxEntries}}

\* The file system of the specifications that do not list the directory.
DefaultFs ==
    [status |-> "present", readable |-> TRUE,
     entries |-> {e \in DirEntries : e.stem \in {"a", "b"}}]

\* No call of fetchModels yet.
NoFetch == [dir |-> "", ret |-> "none", list |-> << >>]

FetchIdle == fsys = DefaultFs /\ fetched = NoFetch

\* The decimal digits of n as character codes.
RECURSIVE DecimalDigits(_)
DecimalDigits(n) ==
    IF n < 10 THEN <<48 + n>> ELSE DecimalDigits(n \div 10) \o <<48 + (n % 10)>>

\* fetchModels, lines 44-49: snprintf("%.2f") of the size in GiB, as character codes.
FormatGB(size) ==
    DecimalDigits(size \div 100) \o <<46>> \o <<48 + ((size % 100) \div 10), 48 + (size % 10)>>

\* operator< of std::string: lexicographic comparison of the characters.
RECURSIVE StringLess(_, _)
StringLess(x, y) ==
    IF y = << >> THEN FALSE
    ELSE IF x = << >> THEN TRUE
    ELSE IF Head(x) # Head(y) THEN Head(x) < Head(y)
    ELSE StringLess(Tail(x), Tail(y))

\* fetchModels, lines 37-53: the {modelName, sizeStr} pairs pushed for the
\* regular files with extension .gguf.
ModelPairs(entries) ==
    {<<e.stem \o e.ext, FormatGB(e.size)>> : e \in {f \in entries : f.regular /\ f.ext = ".gguf"}}

\* fetchModels, lines 62-63: the orders std::sort can leave the pairs in with
\* the comparator a.second < b.second (the iteration order of the directory is
\* unspecified and std::sort is not stable, so equal sizes come in any order).
SortedLists(pairs) ==
    {q \in [1..Cardinality(pairs) -> pairs] :
        /\ \A i, j \in DOMAIN q : i # j => q[i] # q[j]
        /\ \A i, j \in DOMAIN q : i < j => ~StringLess(q[j][2], q[i][2])}

\* Variant of the results of fetchModels that tests the existence of the
\* directory before it tests whether a directory is configured.
fetchModelsResults_ExistsFirst ==
    IF m_modelsDir = "" \/ fsys.status = "absent"
    THEN {[dir |-> m_modelsDir, ret |-> "MODEL_DIRECTORY_DOES_NOT_EXIST", list |-> << >>]}
    ELSE IF fsys.status = "error"
    THEN {[dir |-> m_modelsDir, ret |-> "exception", list |-> << >>]}
    ELSE IF ~fsys.readable
    THEN {[dir |-> m_modelsDir, ret |-> "MODEL_PATH_ERROR", list |-> << >>]}
    ELSE {[dir |-> m_modelsDir, ret |-> "ok", list |-> q] :
             q \in SortedLists(ModelPairs(fsys.entries))}

\* The results fetchModels can have: an error value, a sorted list, or an
\* exception of std::filesystem::exists (line 27 is outside the try block).
fetchModelsResults ==
    IF m_modelsDir = ""
    THEN {[dir |-> m_modelsDir, ret |-> "MODEL_DIRECTORY_NOT_SET", list |-> << >>]}
    ELSE IF fsys.status = "error"
    THEN {[dir |-> m_modelsDir, ret |-> "exception", list |-> << >>]}
    ELSE IF fsys.status = "absent"
    THEN {[dir |-> m_modelsDir, ret |-> "MODEL_DIRECTORY_DOES_NOT_EXIST", list |-> << >>]}
    ELSE IF ~fsys.readable
    THEN {[dir |-> m_modelsDir, ret |-> "MODEL_PATH_ERROR", list |-> << >>]}
    ELSE {[dir |-> m_modelsDir, ret |-> "ok", list |-> q] :
             q \in SortedLists(ModelPairs(fsys.entries))}

\* Variant of fetchModels that unloads the loaded model before it lists.
fetchModels_Unloads ==
    /\ mpc = "idle" /\ ~crashed
    /\ UNCHANGED <<appVars, genVars, ctxVars, fmtVars>>
    /\ \E r \in fetchModelsResults : fetched' = r
    /\ unloadModelBody
    /\ UNCHANGED <<fsys, m_modelsDir, m_modelMap, orphans, failures, mpc, call>>

\* ModelManager::fetchModels called by a client.
fetchModels ==
    /\ mpc = "idle" /\ ~crashed
    /\ UNCHANGED <<appVars, genVars, ctxVars, fmtVars>>
    /\ \E r \in fetchModelsResults : fetched' = r
    /\ UNCHANGED <<fsys, mgrVars>>

\* The listing machine: the manager with the models directory in any state.
FetchNext ==
    \/ MgrNext
    \/ fetchModels

\* ------------------------------------------------------------------------
\* Application
\* ------------------------------------------------------------------------

\* One piece of conversationHistory: the "User: ..." line of a prompt, the
\* "<llm>: " prefix of a reply, the n-th response chunk of task w, or the
\* "\n\n" that ends a reply.
Piece(kind, w, n) == [kind |-> kind, w |-> w, n |-> n]

\* Call and return on the thread that runs the handlers.
Call(u, entry, retTo) == [u EXCEPT !.pc = entry, !.stack = <<retTo>> \o @]

Return(u) == [u EXCEPT !.pc = Head(u.stack), !.stack = Tail(@)]

\* Outcome so far of the load request sent by the last startLLM.
LoadStatus == IF loaders = << >> THEN "none" ELSE loaders[Len(loaders)].result

\* The load threads that matter: those still running, and the last one started.
DropFinished(ls) ==
    LET n == Len(ls) IN
    IF n = 0 THEN ls
    ELSE SelectSeq(SubSeq(ls, 1, n - 1), LAMBDA l : l.pc # "done") \o <<ls[n]>>

\* A task whose future is ready (its closure is not used again).
DoneTask ==
    [llm |-> "", prompt |-> "", keepAlive |-> TRUE, pc |-> "done", sent |-> 0,
     acc |-> << >>, chunkCounter |-> 0, loadAtSpawn |-> "none",
     pipe |-> "none", why |-> "none"]

\* main has not returned: the detached threads and the tasks still run.
ProcessAlive == ui.pc # "exited"

\* Tasks whose future is not ready yet.
Running == {w \in DOMAIN workers : workers[w].pc # "done"}

\* Member initializers of Application (Application.h) and a thread in mainLoop.
AppInit ==
    /\ isLLMRunning = FALSE
    /\ currentLLM = ""
    /\ showPromptWindow = FALSE
    /\ conversationHistory = << >>
    /\ isWaitingForResponse = FALSE
    /\ stopRequested = FALSE
    /\ llmFuture = NULL
    /\ isShuttingDown = FALSE
    /\ showShutdownWindow = FALSE
    /\ ui = [pc |-> "idle", stack |-> << >>, llmName |-> "", prompt |-> "",
             keepAlive |-> TRUE, task |-> NULL]
    /\ workers = << >>
    /\ loaders = << >>
    /\ nEvents = 0
    /\ ioFailures = 0
    /\ replyLines = MaxChunks

\* ---- events of drawUI / mainLoop ----

\* drawUI, lines 533-540: the Run button of a model that is not the running one.
clickRun(llm) ==
    /\ ui.pc = "idle" /\ ~isShuttingDown
    /\ ~(isLLMRunning /\ currentLLM = llm)
    /\ nEvents < MaxEvents
    /\ nEvents' = nEvents + 1
    /\ ui' = Call([ui EXCEPT !.llmName = llm], "sl_begin", "idle")
    /\ UNCHANGED <<isLLMRunning, currentLLM, showPromptWindow, conversationHistory,
                   isWaitingForResponse, stopRequested, llmFuture, isShuttingDown,
                   showShutdownWindow, workers, loaders, ioFailures>>
    /\ UNCHANGED <<mgrVars, genVars, fetchVars, ctxVars, fmtVars, replyLines>>

\* drawUI, lines 533-537: the Stop button of the running model.
clickStop ==
    /\ ui.pc = "idle" /\ ~isShuttingDown
    /\ isLLMRunning /\ currentLLM \in LLMs
    /\ nEvents < MaxEvents
    /\ nEvents' = nEvents + 1
    /\ ui' = Call(ui, "st_begin", "idle")
    /\ UNCHANGED <<isLLMRunning, currentLLM, showPromptWindow, conversationHistory,
                   isWaitingForResponse, stopRequested, llmFuture, isShuttingDown,
                   showShutdownWindow, workers, loaders, ioFailures>>
    /\ UNCHANGED <<mgrVars, genVars, fetchVars, ctxVars, fmtVars, replyLines>>

\* drawUI, lines 545 and 623-640: Enter or Send in the prompt window.
submitPrompt(p) ==
    /\ ui.pc = "idle" /\ ~isShuttingDown
    /\ showPromptWindow
    /\ nEvents < MaxEvents
    /\ nEvents' = nEvents + 1
    /\ ui' = Call([ui EXCEPT !.prompt = p, !.keepAlive = TRUE], "sp_begin", "idle")
    /\ UNCHANGED <<isLLMRunning, currentLLM, showPromptWindow, conversationHistory,
                   isWaitingForResponse, stopRequested, llmFuture, isShuttingDown,
                   showShutdownWindow, workers, loaders, ioFailures>>
    /\ UNCHANGED <<mgrVars, genVars, fetchVars, ctxVars, fmtVars, replyLines>>

\* mainLoop, lines 431-445: the window is closed; with a model running stopLLM
\* runs on a shutdown thread while the UI is no longer drawn, else the loop ends.
closeWindow ==
    /\ ui.pc = "idle" /\ ~isShuttingDown
    /\ IF isLLMRunning
       THEN /\ isShuttingDown' = TRUE
            /\ showShutdownWindow' = TRUE
            /\ ui' = Call(ui, "st_begin", "sd_done")
       ELSE /\ ui' = [ui EXCEPT !.pc = "exiting"]
            /\ UNCHANGED <<isShuttingDown, showShutdownWindow>>
    /\ UNCHANGED <<isLLMRunning, currentLLM, showPromptWindow, conversationHistory,
                   isWaitingForResponse, stopRequested, llmFuture,
                   workers, loaders, nEvents, ioFailures>>
    /\ UNCHANGED <<mgrVars, genVars, fetchVars, ctxVars, fmtVars, replyLines>>

\* mainLoop, lines 443 and 431: the shutdown thread is through, the loop ends.
shutdownDone ==
    /\ ui.pc = "sd_done"
    /\ showShutdownWindow' = FALSE
    /\ ui' = [ui EXCEPT !.pc = "exiting"]
    /\ UNCHANGED <<isLLMRunning, currentLLM, showPromptWindow, conversationHistory,
                   isWaitingForResponse, stopRequested, llmFuture, isShuttingDown,
                   workers, loaders, nEvents, ioFailures>>
    /\ UNCHANGED <<mgrVars, genVars, fetchVars, ctxVars, fmtVars, replyLines>>

\* main (main.cpp:13-21) and ~Application, lines 44-67: run() has returned with
\* no model running; destroying llmFuture waits for its task; then the process
\* ends, and with it every thread.
exitApp ==
    /\ ui.pc = "exiting"
    /\ llmFuture # NULL => workers[llmFuture].pc = "done"
    /\ ui' = [ui EXCEPT !.pc = "exited"]
    /\ workers' = << >>
    /\ loaders' = << >>
    /\ llmFuture' = NULL
    /\ UNCHANGED <<isLLMRunning, currentLLM, showPromptWindow, conversationHistory,
                   isWaitingForResponse, stopRequested, isShuttingDown,
                   showShutdownWindow, nEvents, ioFailures>>
    /\ UNCHANGED <<mgrVars, genVars, fetchVars, ctxVars, fmtVars, replyLines>>

\* ---- Application::startLLM ----

\* startLLM, lines 99-101.
startLLM_Begin ==
    /\ ui.pc = "sl_begin"
    /\ ui' = IF isLLMRunning THEN Call(ui, "st_begin", "sl_check")
                             ELSE [ui EXCEPT !.pc = "sl_check"]
    /\ UNCHANGED <<isLLMRunning, currentLLM, showPromptWindow, conversationHistory,
                   isWaitingForResponse, stopRequested, llmFuture, isShuttingDown,
                   showShutdownWindow, workers, loaders, nEvents, ioFailures>>
    /\ UNCHANGED <<mgrVars, genVars, fetchVars, ctxVars, fmtVars, replyLines>>

\* startLLM, lines 103-115: the server answers the availability check or not.
startLLM_Check ==
    /\ ui.pc = "sl_check"
    /\ \/ ui' = [ui EXCEPT !.pc = "sl_set"]
       \/ ui' = Return(ui)
    /\ UNCHANGED <<isLLMRunning, currentLLM, showPromptWindow, conversationHistory,
                   isWaitingForResponse, stopRequested, llmFuture, isShuttingDown,
                   showShutdownWindow, workers, loaders, nEvents, ioFailures>>
    /\ UNCHANGED <<mgrVars, genVars, fetchVars, ctxVars, fmtVars, replyLines>>

\* startLLM, lines 117-169: mark the model running, reset the conversation,
\* start the detached load thread.
startLLM_Set ==
    /\ ui.pc = "sl_set"
    /\ currentLLM' = ui.llmName
    /\ isLLMRunning' = TRUE
    /\ showPromptWindow' = TRUE
    /\ conversationHistory' = << >>
    /\ loaders' = Append(SelectSeq(loaders, LAMBDA l : l.pc # "done"),
                         [pc |-> "file", result |-> "pending"])
    /\ ui' = Return(ui)
    /\ UNCHANGED <<isWaitingForResponse, stopRequested, llmFuture, isShuttingDown,
                   showShutdownWindow, workers, nEvents, ioFailures>>
    /\ UNCHANGED <<mgrVars, genVars, fetchVars, ctxVars, fmtVars, replyLines>>

\* ---- the load thread of startLLM ----

\* startLLM, lines 130-147: write the request file.
loadThread_File(l) ==
    /\ loaders[l].pc = "file" /\ ProcessAlive
    /\ \/ /\ loaders' = [loaders EXCEPT ![l].pc = "curl"]
          /\ UNCHANGED ioFailures
       \/ /\ ioFailures < MaxIOFailures
          /\ ioFailures' = ioFailures + 1
          /\ loaders' = DropFinished([loaders EXCEPT ![l].pc = "done", ![l].result = "failed"])
    /\ UNCHANGED <<isLLMRunning, currentLLM, showPromptWindow, conversationHistory,
                   isWaitingForResponse, stopRequested, llmFuture, isShuttingDown,
                   showShutdownWindow, ui, workers, nEvents>>
    /\ UNCHANGED <<mgrVars, genVars, fetchVars, ctxVars, fmtVars, replyLines>>

\* startLLM, lines 149-164: system(curl) returns 0 or an error code; remove the
\* request file; the thread ends (only the last load's outcome is kept).
loadThread_Curl(l) ==
    /\ loaders[l].pc = "curl" /\ ProcessAlive
    /\ \E r \in {"ok", "failed"} :
          loaders' = DropFinished([loaders EXCEPT ![l].pc = "done", ![l].result = r])
    /\ UNCHANGED <<isLLMRunning, currentLLM, showPromptWindow, conversationHistory,
                   isWaitingForResponse, stopRequested, llmFuture, isShuttingDown,
                   showShutdownWindow, ui, workers, nEvents, ioFailures>>
    /\ UNCHANGED <<mgrVars, genVars, fetchVars, ctxVars, fmtVars, replyLines>>

\* ---- Application::stopLLM ----

\* stopLLM, lines 173-174.
stopLLM_Begin ==
    /\ ui.pc = "st_begin"
    /\ IF isLLMRunning
       THEN /\ stopRequested' = TRUE
            /\ ui' = [ui EXCEPT !.pc = "st_wait"]
       ELSE /\ ui' = Return(ui)
            /\ UNCHANGED stopRequested
    /\ UNCHANGED <<isLLMRunning, currentLLM, showPromptWindow, conversationHistory,
                   isWaitingForResponse, llmFuture, isShuttingDown,
                   showShutdownWindow, workers, loaders, nEvents, ioFailures>>
    /\ UNCHANGED <<mgrVars, genVars, fetchVars, ctxVars, fmtVars, replyLines>>

\* Variant of stopLLM, lines 175-181, without llmFuture.wait().
stopLLM_Wait_NoWait ==
    /\ ui.pc = "st_wait"
    /\ ui' = Call([ui EXCEPT !.prompt = "", !.keepAlive = FALSE], "sp_begin", "st_finish")
    /\ UNCHANGED <<isLLMRunning, currentLLM, showPromptWindow, conversationHistory,
                   isWaitingForResponse, stopRequested, llmFuture, isShuttingDown,
                   showShutdownWindow, workers, loaders, nEvents, ioFailures>>
    /\ UNCHANGED <<mgrVars, genVars, fetchVars, ctxVars, fmtVars, replyLines>>

\* stopLLM, lines 175-181: llmFuture.wait() returns once the task is done; then
\* sendPrompt("", false).
stopLLM_Wait ==
    /\ ui.pc = "st_wait"
    /\ llmFuture # NULL => workers[llmFuture].pc = "done"
    /\ ui' = Call([ui EXCEPT !.prompt = "", !.keepAlive = FALSE], "sp_begin", "st_finish")
    /\ UNCHANGED <<isLLMRunning, currentLLM, showPromptWindow, conversationHistory,
                   isWaitingForResponse, stopRequested, llmFuture, isShuttingDown,
                   showShutdownWindow, workers, loaders, nEvents, ioFailures>>
    /\ UNCHANGED <<mgrVars, genVars, fetchVars, ctxVars, fmtVars, replyLines>>

\* Variant of stopLLM, lines 183-189, that also empties the conversation.
stopLLM_Finish_ClearHistory ==
    /\ ui.pc = "st_finish"
    /\ isLLMRunning' = FALSE
    /\ currentLLM' = ""
    /\ stopRequested' = FALSE
    /\ isWaitingForResponse' = FALSE
    /\ showPromptWindow' = FALSE
    /\ conversationHistory' = << >>
    /\ ui' = Return(ui)
    /\ UNCHANGED <<llmFuture, isShuttingDown,
                   showShutdownWindow, workers, loaders, nEvents, ioFailures>>
    /\ UNCHANGED <<mgrVars, genVars, fetchVars, ctxVars, fmtVars, replyLines>>

\* stopLLM, lines 183-189.
stopLLM_Finish ==
    /\ ui.pc = "st_finish"
    /\ isLLMRunning' = FALSE
    /\ currentLLM' = ""
    /\ stopRequested' = FALSE
    /\ isWaitingForResponse' = FALSE
    /\ showPromptWindow' = FALSE
    /\ ui' = Return(ui)
    /\ UNCHANGED <<conversationHistory, llmFuture, isShuttingDown,
                   showShutdownWindow, workers, loaders, nEvents, ioFailures>>
    /\ UNCHANGED <<mgrVars, genVars, fetchVars, ctxVars, fmtVars, replyLines>>

\* ---- Application::sendPrompt ----

\* Variant of sendPrompt, lines 195-232, that leaves the user line to the task.
sendPrompt_Begin_NoUserTurn ==
    /\ ui.pc = "sp_begin"
    /\ IF ~isLLMRunning
       THEN /\ ui' = Return(ui)
            /\ UNCHANGED <<isWaitingForResponse, conversationHistory, stopRequested>>
       ELSE /\ isWaitingForResponse' = IF ui.prompt # "" THEN TRUE ELSE isWaitingForResponse
            /\ UNCHANGED conversationHistory
            /\ stopRequested' = FALSE
            /\ ui' = [ui EXCEPT !.pc = "sp_spawn"]
    /\ UNCHANGED <<isLLMRunning, currentLLM, showPromptWindow, llmFuture, isShuttingDown,
                   showShutdownWindow, workers, loaders, nEvents, ioFailures>>
    /\ UNCHANGED <<mgrVars, genVars, fetchVars, ctxVars, fmtVars, replyLines>>

\* sendPrompt, lines 195-232: return unless a model runs; for a non-empty prompt
\* raise the waiting flag and append the user line under responseMutex; build
\* the combined prompt; clear the stop flag.
sendPrompt_Begin ==
    /\ ui.pc = "sp_begin"
    /\ IF ~isLLMRunning
       THEN /\ ui' = Return(ui)
            /\ UNCHANGED <<isWaitingForResponse, conversationHistory, stopRequested>>
       ELSE /\ isWaitingForResponse' = IF ui.prompt # "" THEN TRUE ELSE isWaitingForResponse
            /\ conversationHistory' =
                  IF ui.prompt # ""
                  THEN Append(conversationHistory, Piece("user", Len(workers) + 1, nEvents))
                  ELSE conversationHistory
            /\ stopRequested' = FALSE
            /\ ui' = [ui EXCEPT !.pc = "sp_spawn"]
    /\ UNCHANGED <<isLLMRunning, currentLLM, showPromptWindow, llmFuture, isShuttingDown,
                   showShutdownWindow, workers, loaders, nEvents, ioFailures>>
    /\ UNCHANGED <<mgrVars, genVars, fetchVars, ctxVars, fmtVars, replyLines>>

\* sendPrompt, line 236 (right-hand side) and 248-253: std::async starts the task
\* on a new thread, or throws and the waiting flag is reset.
sendPrompt_Spawn ==
    /\ ui.pc = "sp_spawn"
    /\ \/ /\ workers' = Append(workers,
                 [llm |-> currentLLM, prompt |-> ui.prompt, keepAlive |-> ui.keepAlive,
                  pc |-> "file", sent |-> 0, acc |-> << >>, chunkCounter |-> 0,
                  loadAtSpawn |-> LoadStatus, pipe |-> "none", why |-> "none"])
          /\ ui' = [ui EXCEPT !.pc = "sp_assign", !.task = Len(workers) + 1]
          /\ UNCHANGED <<isWaitingForResponse, ioFailures>>
       \/ /\ ioFailures < MaxIOFailures
          /\ ioFailures' = ioFailures + 1
          /\ isWaitingForResponse' = IF ui.prompt # "" THEN FALSE ELSE isWaitingForResponse
          /\ ui' = Return(ui)
          /\ UNCHANGED workers
    /\ UNCHANGED <<isLLMRunning, currentLLM, showPromptWindow, conversationHistory,
                   stopRequested, llmFuture, isShuttingDown,
                   showShutdownWindow, loaders, nEvents>>
    /\ UNCHANGED <<mgrVars, genVars, fetchVars, ctxVars, fmtVars, replyLines>>

\* sendPrompt, line 236 (assignment): moving the new future into llmFuture drops
\* the previous shared state, which blocks until the previous task has finished.
sendPrompt_Assign ==
    /\ ui.pc = "sp_assign"
    /\ llmFuture # NULL => workers[llmFuture].pc = "done"
    /\ llmFuture' = ui.task
    /\ ui' = Return(ui)
    /\ UNCHANGED <<isLLMRunning, currentLLM, showPromptWindow, conversationHistory,
                   isWaitingForResponse, stopRequested, isShuttingDown,
                   showShutdownWindow, workers, loaders, nEvents, ioFailures>>
    /\ UNCHANGED <<mgrVars, genVars, fetchVars, ctxVars, fmtVars, replyLines>>

\* ---- the task of sendPrompt: Application::streamLLMResponse and the lambda ----

\* streamLLMResponse, lines 263-286: write the request file.
stream_File(w) ==
    /\ workers[w].pc = "file" /\ ProcessAlive
    /\ \/ /\ workers' = [workers EXCEPT ![w].pc = IF workers[w].prompt = "" THEN "ctl" ELSE "popen"]
          /\ UNCHANGED ioFailures
       \/ /\ ioFailures < MaxIOFailures
          /\ ioFailures' = ioFailures + 1
          /\ workers' = [workers EXCEPT ![w].pc = "tail"]
    /\ UNCHANGED <<isLLMRunning, currentLLM, showPromptWindow, conversationHistory,
                   isWaitingForResponse, stopRequested, llmFuture, isShuttingDown,
                   showShutdownWindow, ui, loaders, nEvents>>
    /\ UNCHANGED <<mgrVars, genVars, fetchVars, ctxVars, fmtVars, replyLines>>

\* streamLLMResponse, lines 294-303: a control message runs curl and returns.
stream_Control(w) ==
    /\ workers[w].pc = "ctl" /\ ProcessAlive
    /\ workers' = [workers EXCEPT ![w].pc = "tail"]
    /\ UNCHANGED <<isLLMRunning, currentLLM, showPromptWindow, conversationHistory,
                   isWaitingForResponse, stopRequested, llmFuture, isShuttingDown,
                   showShutdownWindow, ui, loaders, nEvents, ioFailures>>
    /\ UNCHANGED <<mgrVars, genVars, fetchVars, ctxVars, fmtVars, replyLines>>

\* Variant of streamLLMResponse, lines 305-323, that appends the "<llm>: "
\* prefix before it looks at the result of popen.
stream_Popen_PrefixFirst(w) ==
    /\ workers[w].pc = "popen" /\ ProcessAlive
    /\ conversationHistory' = Append(conversationHistory, Piece("model", w, 0))
    /\ \/ /\ workers' = [workers EXCEPT ![w].pc = "loop", ![w].pipe = "open"]
          /\ UNCHANGED ioFailures
       \/ /\ ioFailures < MaxIOFailures
          /\ ioFailures' = ioFailures + 1
          /\ workers' = [workers EXCEPT ![w].pc = "tail"]
    /\ UNCHANGED <<isLLMRunning, currentLLM, showPromptWindow,
                   isWaitingForResponse, stopRequested, llmFuture, isShuttingDown,
                   showShutdownWindow, ui, loaders, nEvents>>
    /\ UNCHANGED <<mgrVars, genVars, fetchVars, ctxVars, fmtVars, replyLines>>

\* streamLLMResponse, lines 305-323: popen the curl command; on failure remove
\* the request file and return, else append "<llm>: " under responseMutex.
stream_Popen(w) ==
    /\ workers[w].pc = "popen" /\ ProcessAlive
    /\ \/ /\ conversationHistory' = Append(conversationHistory, Piece("model", w, 0))
          /\ workers' = [workers EXCEPT ![w].pc = "loop", ![w].pipe = "open"]
          /\ UNCHANGED ioFailures
       \/ /\ ioFailures < MaxIOFailures
          /\ ioFailures' = ioFailures + 1
          /\ workers' = [workers EXCEPT ![w].pc = "tail"]
          /\ UNCHANGED conversationHistory
    /\ UNCHANGED <<isLLMRunning, currentLLM, showPromptWindow,
                   isWaitingForResponse, stopRequested, llmFuture, isShuttingDown,
                   showShutdownWindow, ui, loaders, nEvents>>
    /\ UNCHANGED <<mgrVars, genVars, fetchVars, ctxVars, fmtVars, replyLines>>

\* streamLLMResponse, lines 331-377, one line of the reply per step: leave the
\* loop when the stop flag is set; else read a response line (buffer the chunk,
\* append the buffer at the threshold), the done line (append what is buffered,
\* leave), or end of file (leave).
stream_Read(w) ==
    /\ workers[w].pc = "loop" /\ ProcessAlive
    /\ IF stopRequested
       THEN /\ workers' = [workers EXCEPT ![w].pc = "term", ![w].why = "stop"]
            /\ UNCHANGED conversationHistory
       ELSE \/ /\ workers[w].sent < replyLines
               /\ LET acc == Append(workers[w].acc, Piece("chunk", w, workers[w].sent + 1)) IN
                  IF workers[w].chunkCounter + 1 >= ChunkFlushThreshold
                  THEN /\ conversationHistory' = conversationHistory \o acc
                       /\ workers' = [workers EXCEPT ![w].sent = @ + 1, ![w].acc = << >>,
                                                     ![w].chunkCounter = 0]
                  ELSE /\ workers' = [workers EXCEPT ![w].sent = @ + 1, ![w].acc = acc,
                                                     ![w].chunkCounter = @ + 1]
                       /\ UNCHANGED conversationHistory
            \/ /\ conversationHistory' = conversationHistory \o workers[w].acc
               /\ workers' = [workers EXCEPT ![w].pc = "term", ![w].why = "done"]
            \/ /\ workers' = [workers EXCEPT ![w].pc = "term", ![w].why = "eof"]
               /\ UNCHANGED conversationHistory
    /\ UNCHANGED <<isLLMRunning, currentLLM, showPromptWindow,
                   isWaitingForResponse, stopRequested, llmFuture, isShuttingDown,
                   showShutdownWindow, ui, loaders, nEvents, ioFailures>>
    /\ UNCHANGED <<mgrVars, genVars, fetchVars, ctxVars, fmtVars, replyLines>>

\* Variant of streamLLMResponse, lines 379-388, that forgets pclose(pipe).
stream_Term_NoClose(w) ==
    /\ workers[w].pc = "term" /\ ProcessAlive
    /\ conversationHistory' = Append(conversationHistory, Piece("end", w, 0))
    /\ workers' = [workers EXCEPT ![w].pc = "tail", ![w].acc = << >>,
                                  ![w].chunkCounter = 0, ![w].sent = 0]
    /\ UNCHANGED <<isLLMRunning, currentLLM, showPromptWindow,
                   isWaitingForResponse, stopRequested, llmFuture, isShuttingDown,
                   showShutdownWindow, ui, loaders, nEvents, ioFailures>>
    /\ UNCHANGED <<mgrVars, genVars, fetchVars, ctxVars, fmtVars, replyLines>>

\* streamLLMResponse, lines 379-388: append "\n\n" under responseMutex, pclose,
\* remove the request file (the loop's locals are dead from here on).
stream_Term(w) ==
    /\ workers[w].pc = "term" /\ ProcessAlive
    /\ conversationHistory' = Append(conversationHistory, Piece("end", w, 0))
    /\ workers' = [workers EXCEPT ![w].pc = "tail", ![w].acc = << >>,
                                  ![w].chunkCounter = 0, ![w].sent = 0,
                                  ![w].pipe = "closed"]
    /\ UNCHANGED <<isLLMRunning, currentLLM, showPromptWindow,
                   isWaitingForResponse, stopRequested, llmFuture, isShuttingDown,
                   showShutdownWindow, ui, loaders, nEvents, ioFailures>>
    /\ UNCHANGED <<mgrVars, genVars, fetchVars, ctxVars, fmtVars, replyLines>>

\* Variant of the end of the task (sendPrompt, lines 243-247) that resets the
\* waiting flag whatever the prompt.
task_Tail_AlwaysReset(w) ==
    /\ workers[w].pc = "tail" /\ ProcessAlive
    /\ isWaitingForResponse' = FALSE
    /\ workers' = [workers EXCEPT ![w] = DoneTask]
    /\ UNCHANGED <<isLLMRunning, currentLLM, showPromptWindow, conversationHistory,
                   stopRequested, llmFuture, isShuttingDown,
                   showShutdownWindow, ui, loaders, nEvents, ioFailures>>
    /\ UNCHANGED <<mgrVars, genVars, fetchVars, ctxVars, fmtVars, replyLines>>

\* sendPrompt, lines 243-247: the end of the task resets the waiting flag for a
\* non-empty prompt; the future becomes ready.
task_Tail(w) ==
    /\ workers[w].pc = "tail" /\ ProcessAlive
    /\ isWaitingForResponse' = IF workers[w].prompt # "" THEN FALSE ELSE isWaitingForResponse
    /\ workers' = [workers EXCEPT ![w] = DoneTask]
    /\ UNCHANGED <<isLLMRunning, currentLLM, showPromptWindow, conversationHistory,
                   stopRequested, llmFuture, isShuttingDown,
                   showShutdownWindow, ui, loaders, nEvents, ioFailures>>
    /\ UNCHANGED <<mgrVars, genVars, fetchVars, ctxVars, fmtVars, replyLines>>

AppNext ==
    \/ \E llm \in LLMs : clickRun(llm)
    \/ clickStop
    \/ \E p \in Prompts : submitPrompt(p)
    \/ closeWindow
    \/ shutdownDone
    \/ exitApp
    \/ startLLM_Begin
    \/ startLLM_Check
    \/ startLLM_Set
    \/ \E l \in DOMAIN loaders : loadThread_File(l)
    \/ \E l \in DOMAIN loaders : loadThread_Curl(l)
    \/ stopLLM_Begin
    \/ stopLLM_Wait
    \/ stopLLM_Finish
    \/ sendPrompt_Begin
    \/ sendPrompt_Spawn
    \/ sendPrompt_Assign
    \/ \E w \in DOMAIN workers : stream_File(w)
    \/ \E w \in DOMAIN workers : stream_Control(w)
    \/ \E w \in DOMAIN workers : stream_Popen(w)
    \/ \E w \in DOMAIN workers : stream_Read(w)
    \/ \E w \in DOMAIN workers : stream_Term(w)
    \/ \E w \in DOMAIN workers : task_Tail(w)

\* ------------------------------------------------------------------------
\* ModelInterface::generateResponse
\* ------------------------------------------------------------------------

\* No call of generateResponse yet: the KV cache of the context is empty.
GenIdle ==
    [pc |-> "idle", writeFd |-> "none", nClose |-> 0, n_tokens |-> 0, used |-> 0,
     written |-> 0, path |-> "none", afterStop |-> 0, calls |-> 0]

GenInit == gen = GenIdle

\* generateResponse is entered (from ModelInterface::sendPrompt, line 117) with
\* the open write end of a pipe and a prompt of nPromptTokens tokens.
generateResponse_Enter(nPromptTokens) ==
    /\ gen.pc \in {"idle", "returned"}
    /\ gen.calls < MaxGenCalls
    /\ gen' = [gen EXCEPT !.pc = "tokenize", !.writeFd = "open", !.nClose = 0,
                          !.n_tokens = nPromptTokens, !.written = 0, !.path = "none",
                          !.afterStop = 0, !.calls = @ + 1]

\* generateResponse called on its own, with any prompt.
generateResponse_Call(nPromptTokens) ==
    /\ generateResponse_Enter(nPromptTokens)
    /\ UNCHANGED <<mgrVars, appVars, fetchVars, ctxVars, fmtVars>>

\* generateResponse, lines 156-170: tokenize the prompt; on failure return.
gen_Tokenize ==
    /\ gen.pc = "tokenize"
    /\ \/ gen' = [gen EXCEPT !.pc = "ctx"]
       \/ gen' = [gen EXCEPT !.pc = "returned", !.path = "tokenize"]
    /\ UNCHANGED <<mgrVars, appVars, fetchVars, ctxVars, fmtVars>>

\* generateResponse, lines 174-183: leave the loop when the batch does not fit.
gen_Context ==
    /\ gen.pc = "ctx"
    /\ gen' = IF gen.used + gen.n_tokens > MaxContext
              THEN [gen EXCEPT !.pc = "close", !.path = "context"]
              ELSE [gen EXCEPT !.pc = "decode"]
    /\ UNCHANGED <<mgrVars, appVars, fetchVars, ctxVars, fmtVars>>

\* generateResponse, lines 185-192: llama_decode fills the cache or fails.
gen_Decode ==
    /\ gen.pc = "decode"
    /\ \/ gen' = [gen EXCEPT !.pc = "sample", !.used = @ + gen.n_tokens]
       \/ gen' = [gen EXCEPT !.pc = "close", !.path = "decode"]
    /\ UNCHANGED <<mgrVars, appVars, fetchVars, ctxVars, fmtVars>>

\* generateResponse, lines 194-201: sample the next token; leave at end of generation.
gen_Sample ==
    /\ gen.pc = "sample"
    /\ \E eog \in BOOLEAN :
          gen' = [gen EXCEPT !.pc = IF eog THEN "close" ELSE "piece",
                             !.path = IF eog THEN "eog" ELSE @,
                             !.afterStop = @ + (IF stopRequested THEN 1 ELSE 0)]
    /\ UNCHANGED <<mgrVars, appVars, fetchVars, ctxVars, fmtVars>>

\* generateResponse, lines 203-224: convert the token; on failure leave, else
\* write its characters to writeFd and make the token the next batch.
gen_Piece ==
    /\ gen.pc = "piece"
    /\ \/ gen' = [gen EXCEPT !.pc = "ctx", !.written = @ + 1, !.n_tokens = 1]
       \/ gen' = [gen EXCEPT !.pc = "close", !.path = "piece"]
    /\ UNCHANGED <<mgrVars, appVars, fetchVars, ctxVars, fmtVars>>

\* generateResponse, line 227: close(writeFd), return.
gen_Close ==
    /\ gen.pc = "close"
    /\ gen' = [gen EXCEPT !.pc = "returned", !.writeFd = "closed", !.nClose = @ + 1]
    /\ UNCHANGED <<mgrVars, appVars, fetchVars, ctxVars, fmtVars>>

\* Application::stopLLM, line 174, seen from the generation: the cooperative
\* stop flag is raised while generateResponse runs.
setStopRequested ==
    /\ gen.pc \notin {"idle", "returned"}
    /\ ~stopRequested
    /\ stopRequested' = TRUE
    /\ UNCHANGED <<isLLMRunning, currentLLM, showPromptWindow, conversationHistory,
                   isWaitingForResponse, llmFuture, isShuttingDown,
                   showShutdownWindow, ui, workers, loaders, nEvents, ioFailures,
                   replyLines>>
    /\ UNCHANGED <<mgrVars, genVars, fetchVars, ctxVars, fmtVars>>

GenNext ==
    \/ \E n \in 1..MaxPromptTokens : generateResponse_Call(n)
    \/ gen_Tokenize
    \/ gen_Context
    \/ gen_Decode
    \/ gen_Sample
    \/ gen_Piece
    \/ gen_Close
    \/ setStopRequested

\* ------------------------------------------------------------------------
\* ModelInterface::sendPrompt and ModelInterface::formatPrompt
\* ------------------------------------------------------------------------

\* The role argument of sendPrompt ("User" by default).
Roles == {"User", "System"}

\* The prompt texts a client sends.
PromptTexts == {"p", "q"}

\* What a read through a stored role pointer can yield: the characters of a role
\* or something else.
RoleReads == Roles \cup {"garbage"}

\* ModelInterface::ModelInterface: no message, m_prevLength zero; formatPrompt
\* has not returned anything yet.
FmtIdle ==
    [m_messages |-> << >>, m_prevLength |-> 0, ret |-> "none", isolatedPrompt |-> << >>]

FmtInit == fmt = FmtIdle

\* llama_chat_apply_template with add_ass true: for every message its role
\* header, its content and an end marker, then the header of the reply.
RECURSIVE ApplyTemplate(_, _)
ApplyTemplate(messages, roles) ==
    IF messages = << >>
    THEN << <<"assistant", "">> >>
    ELSE << <<"role", Head(roles)>>, <<"content", Head(messages).content>>, <<"end", "">> >>
         \o ApplyTemplate(Tail(messages), Tail(roles))

\* The roles the template can read for the messages: m_messages stores
\* role.c_str() of sendPrompt's by-value argument (line 111), which is valid for
\* the message of the current call and dangling for the earlier ones.
ReadableRoles(messages) ==
    {r \in [1..Len(messages) -> RoleReads] : r[Len(messages)] = messages[Len(messages)].role}

\* ModelInterface::formatPrompt: the results it can return. A negative length
\* from the template gives the empty string; else the characters of the
\* formatted conversation from m_prevLength to its end.
formatPrompt(messages, prevLength) ==
    {[ret |-> "error", isolatedPrompt |-> << >>]}
    \cup {[ret |-> "ok",
           isolatedPrompt |-> SubSeq(ApplyTemplate(messages, r),
                                     prevLength + 1,
                                     Len(ApplyTemplate(messages, r)))] :
             r \in ReadableRoles(messages)}

\* ModelInterface::sendPrompt: push the message, format, call generateResponse.
\* m_prevLength is written by the constructor only.
ModelInterface_sendPrompt(prompt, role) ==
    /\ \E n \in 1..MaxPromptTokens : generateResponse_Enter(n)
    /\ LET messages == Append(fmt.m_messages, [role |-> role, content |-> prompt]) IN
       \E f \in formatPrompt(messages, fmt.m_prevLength) :
          fmt' = [fmt EXCEPT !.m_messages = messages, !.ret = f.ret,
                             !.isolatedPrompt = f.isolatedPrompt]
    /\ UNCHANGED <<mgrVars, appVars, fetchVars, ctxVars>>

\* A session of prompts on one loaded interface.
PromptNext ==
    \/ \E prompt \in PromptTexts, role \in Roles : ModelInterface_sendPrompt(prompt, role)
    \/ gen_Tokenize
    \/ gen_Context
    \/ gen_Decode
    \/ gen_Sample
    \/ gen_Piece
    \/ gen_Close

\* ------------------------------------------------------------------------
\* ContextManager
\* ------------------------------------------------------------------------

\* The paths the file dialog can return, as sequences of characters.
FilePaths ==
    { <<"/", "d", "/", "a">>, <<"/", "e", "/", "a">>, <<"/", "d", "/">>, <<"a">>, <<"b">> }

\* Position of the last directory separator of a path (0: none).
LastSeparator(filePath) ==
    LET S == {i \in DOMAIN filePath : filePath[i] = "/"} IN
    IF S = {} THEN 0 ELSE CHOOSE i \in S : \A j \in S : j <= i

\* ContextManager::getFileNameFromPath: std::filesystem::path::filename, the
\* part of the path after its last separator (empty when the path ends in one).
getFileNameFromPath(filePath) ==
    SubSeq(filePath, LastSeparator(filePath) + 1, Len(filePath))

\* std::vector::erase(begin() + index), index counted from 0.
Erase(v, index) == SubSeq(v, 1, index) \o SubSeq(v, index + 2, Len(v))

\* ContextManager::ContextManager: both vectors empty.
CtxInit ==
    /\ files = << >>
    /\ fileNames = << >>
    /\ ctxCall = [op |-> "none", index |-> 0, size |-> 0]

\* ContextManager::addFile (the callback is null unless a client sets one, and
\* it is called after both vectors have grown).
addFile(filePath) ==
    /\ Len(files) < MaxFiles
    /\ files' = Append(files, filePath)
    /\ fileNames' = Append(fileNames, getFileNameFromPath(filePath))
    /\ ctxCall' = [op |-> "add", index |-> 0, size |-> Len(files)]
    /\ UNCHANGED <<mgrVars, appVars, genVars, fetchVars, fmtVars>>

\* Variant of removeFile that erases the path and keeps the name.
removeFile_PathOnly(index) ==
    /\ IF index < Len(files)
       THEN /\ files' = Erase(files, index)
            /\ UNCHANGED fileNames
       ELSE UNCHANGED <<files, fileNames>>
    /\ ctxCall' = [op |-> "remove", index |-> index, size |-> Len(files)]
    /\ UNCHANGED <<mgrVars, appVars, genVars, fetchVars, fmtVars>>

\* ContextManager::removeFile
removeFile(index) ==
    /\ IF index < Len(files)
       THEN /\ files' = Erase(files, index)
            /\ fileNames' = Erase(fileNames, index)
       ELSE UNCHANGED <<files, fileNames>>
    /\ ctxCall' = [op |-> "remove", index |-> index, size |-> Len(files)]
    /\ UNCHANGED <<mgrVars, appVars, genVars, fetchVars, fmtVars>>

\* ContextManager::clearAll
clearAll ==
    /\ files' = << >>
    /\ fileNames' = << >>
    /\ ctxCall' = [op |-> "clear", index |-> 0, size |-> Len(files)]
    /\ UNCHANGED <<mgrVars, appVars, genVars, fetchVars, fmtVars>>

CtxNext ==
    \/ \E filePath \in FilePaths : addFile(filePath)
    \/ \E index \in 0..MaxFiles : removeFile(index)
    \/ clearAll

vars == <<mgrVars, appVars, genVars, fetchVars, ctxVars, fmtVars>>

Init == MgrInit /\ AppInit /\ GenInit /\ FetchIdle /\ CtxInit /\ FmtInit

\* The state after startLLM("A") on a fresh Application, once the load thread
\* has finished successfully, with two user events left and a server whose
\* replies have MaxStreamChunks response lines.
StreamInit ==
    /\ MgrInit /\ GenInit /\ FetchIdle /\ CtxInit /\ FmtInit
    /\ isLLMRunning = TRUE
    /\ currentLLM = "A"
    /\ showPromptWindow = TRUE
    /\ conversationHistory = << >>
    /\ isWaitingForResponse = FALSE
    /\ stopRequested = FALSE
    /\ llmFuture = NULL
    /\ isShuttingDown = FALSE
    /\ showShutdownWindow = FALSE
    /\ ui = [pc |-> "idle", stack |-> << >>, llmName |-> "A", prompt |-> "",
             keepAlive |-> TRUE, task |-> NULL]
    /\ workers = << >>
    /\ loaders = <<[pc |-> "done", result |-> "ok"]>>
    /\ nEvents = MaxEvents - 2
    /\ ioFailures = 0
    /\ replyLines = MaxStreamChunks

Next == MgrNext

Spec == Init /\ [][Next]_vars

AppSpec == Init /\ [][AppNext]_vars

GenSpec == Init /\ [][GenNext]_vars

StreamSpec == StreamInit /\ [][AppNext]_vars

\* A fresh ModelManager whose engine initializations succeed, with the models
\* directory in any state.
FetchInit ==
    /\ AppInit /\ GenInit /\ CtxInit /\ FmtInit
    /\ m_modelsDir = ""
    /\ m_modelMap = [n \in Names |-> NULL]
    /\ m_loadedModel = NULL
    /\ heap = << >>
    /\ orphans = 0
    /\ failures = MaxEngineFailures
    /\ mpc = "idle"
    /\ call = NoCall
    /\ crashed = FALSE
    /\ fsys \in FileSystems
    /\ fetched = NoFetch

FetchSpec == FetchInit /\ [][FetchNext]_vars

CtxSpec == Init /\ [][CtxNext]_vars

PromptSpec == Init /\ [][PromptNext]_vars

\* ------------------------------------------------------------------------
\* Properties of the ModelManager machine (Spec)
\* ------------------------------------------------------------------------

Loaded == {id \in DOMAIN heap : heap[id].m_isLoaded}

Resources(id) == {heap[id].m_sampler, heap[id].m_context, heap[id].m_model}

\* Interfaces that hold an initialized engine (a model with its context).
Engines == {id \in DOMAIN heap : heap[id].m_model = "alloc" /\ heap[id].m_context = "alloc"}

\* C1: at every instant at most one ModelInterface has isLoaded() true and at
\* most one holds an initialized engine, and after a final unloadModel() none
\* does and m_loadedModel is null.
C1_AtMostOneLoaded ==
    /\ Cardinality(Loaded) <= 1
    /\ Cardinality(Engines) <= 1
    /\ (mpc = "idle" /\ call.op = "unload" /\ call.ret = "void")
          => (Loaded = {} /\ Engines = {} /\ m_loadedModel = NULL)

\* load(A), load(B), load(A): the last load reuses A's interface while B was loaded.
C1_Witness ==
    /\ mpc = "idle" /\ call.op = "load" /\ call.ret = "ok" /\ ~call.isNew
    /\ call.preLoaded # NULL
    /\ heap[call.preLoaded].m_modelPath # call.name
    /\ Loaded = {call.obj}

\* C2: loadModel(N) while N's session is the loaded one returns the existing
\* handle and invokes neither ModelInterface::unload nor ModelInterface::load.
C2_LoadOfLoadedIsIdempotent ==
    (call.op = "load" /\ call.preLoaded # NULL
       /\ heap[call.preLoaded].m_modelPath = call.name)
    => /\ call.nUnload = 0
       /\ call.nLoad = 0
       /\ mpc = "idle" => (call.ret = "ok" /\ m_loadedModel = call.preLoaded)

\* C3: loadModel of a name whose file does not exist returns MODEL_NOT_FOUND and
\* leaves the previously loaded model loaded.
C3_NotFoundKeepsSession ==
    (mpc = "idle" /\ call.op = "load" /\ call.ret = "MODEL_NOT_FOUND")
    => /\ m_loadedModel = call.preLoaded
       /\ call.preLoaded # NULL => isLoaded(heap, call.preLoaded)

\* C4: in loadModel(B) with a different session A loaded, A is completely
\* unloaded (flag false, pointer null, nothing of A allocated) at every point from
\* the file checks through the engine initialization of B.
C4_UnloadBeforeInit ==
    (call.op = "load" /\ ~crashed /\ call.preLoaded # NULL
       /\ heap[call.preLoaded].m_modelPath # call.name)
    => /\ ~isLoaded(heap, call.preLoaded)
       /\ "alloc" \notin Resources(call.preLoaded)
       /\ mpc # "idle" => m_loadedModel = NULL

\* B's model is loaded and its context is about to be created; A was loaded at the call.
C4_Witness ==
    /\ mpc = "ld_context" /\ call.op = "load" /\ ~crashed
    /\ call.preLoaded # NULL
    /\ heap[call.preLoaded].m_modelPath # call.name
    /\ heap[call.obj].m_model = "alloc"

\* C5: when engine initialization fails, loadModel returns MODEL_LOAD_ERROR with
\* the session unloaded and no native resource of the attempt left allocated.
C5_FailedLoadRetainsNothing ==
    (mpc = "idle" /\ call.op = "load" /\ call.ret = "MODEL_LOAD_ERROR")
    => /\ ~isLoaded(heap, call.obj)
       /\ m_loadedModel = NULL
       /\ "alloc" \notin Resources(call.obj)
       /\ orphans = call.preOrphans

\* C6: unloadModel with nothing loaded changes no state and reports no error,
\* and an unloadModel right after an unloadModel changes nothing.
C6_UnloadIdempotent ==
    [][(unloadModel /\ (m_loadedModel = NULL \/ (call.op = "unload" /\ call.ret = "void")))
        => /\ UNCHANGED <<m_modelsDir, m_modelMap, m_loadedModel, heap, orphans, failures, crashed>>
           /\ call'.ret = "void"]_mgrVars

\* load, unloadModel, unloadModel: the second one found nothing loaded.
C6_Witness ==
    /\ mpc = "idle" /\ call.op = "unload" /\ call.ret = "void" /\ call.preLoaded = NULL
    /\ call.prevOp = "unload" /\ call.prevPre # NULL

\* C7: when unloadModel returns after being called with a model loaded, that
\* interface is not loaded, its sampler, context and model are freed and
\* m_loadedModel is null.
C7_UnloadComplete ==
    (mpc = "idle" /\ call.op = "unload" /\ call.ret = "void" /\ call.preLoaded # NULL)
    => /\ ~isLoaded(heap, call.preLoaded)
       /\ Resources(call.preLoaded) = {"freed"}
       /\ m_loadedModel = NULL
       /\ Loaded = {}

C7_Witness ==
    /\ mpc = "idle" /\ call.op = "unload" /\ call.ret = "void" /\ call.preLoaded # NULL
    /\ m_modelMap[heap[call.preLoaded].m_modelPath] = call.preLoaded

C27_NoResourceFreedTwice ==
    /\ []~crashed
    /\ [][\A id \in DOMAIN heap :
            (isLoaded(heap, id) /\ ~isLoaded(heap', id)) => "freed" \notin Resources(id)]_vars

\* The ModelInterface objects stored in m_modelMap.
Stored == {m_modelMap[n] : n \in Names} \ {NULL}

\* C28: between the calls of loadModel and unloadModel, a non-null m_loadedModel
\* points to a ModelInterface stored in m_modelMap whose isLoaded() is true, and
\* every other ModelInterface stored in m_modelMap has isLoaded() false.
C28_LoadedPointerConsistent ==
    mpc = "idle"
    => /\ m_loadedModel # NULL => (m_loadedModel \in Stored /\ isLoaded(heap, m_loadedModel))
       /\ \A id \in Stored \ {m_loadedModel} : ~isLoaded(heap, id)

\* Two interfaces are stored, one of them is the loaded one, and the other one
\* was loaded before it.
C28_Witness ==
    /\ mpc = "idle" /\ call.op = "load" /\ call.ret = "ok"
    /\ m_loadedModel # NULL
    /\ call.preLoaded \in Stored \ {m_loadedModel}

\* ------------------------------------------------------------------------
\* Properties of the Application machine (AppSpec)
\* ------------------------------------------------------------------------

\* Tasks of non-empty prompts (generation workers) that are still running.
Generating == {w \in Running : workers[w].prompt # ""}

\* C9: sendPrompt starts a generation worker only when the load request of the
\* current model has completed successfully.
C9_PromptOnlyWhenLoaded ==
    \A w \in Generating : workers[w].loadAtSpawn = "ok"

\* C10: at most one streaming worker of a prompt is running at any time.
C10_OneGenerationAtATime ==
    Cardinality(Generating) <= 1

\* C11: once the "<llm>: " prefix of a reply is in the log, no User turn and no
\* piece of another reply is appended before that reply's terminator.
C11_NoInterleavedStreams ==
    \A i, j \in DOMAIN conversationHistory :
        (/\ i < j
         /\ conversationHistory[i].kind = "model"
         /\ \/ conversationHistory[j].kind = "user"
            \/ conversationHistory[j].w # conversationHistory[i].w)
        => \E k \in (i + 1)..(j - 1) :
              /\ conversationHistory[k].kind = "end"
              /\ conversationHistory[k].w = conversationHistory[i].w

\* C12: the User turn of a non-empty prompt is in the log before its task is
\* started, and it precedes every piece (prefix, chunks, terminator) that the
\* task appends.
C12_UserTurnFirst ==
    /\ (ui.pc = "sp_spawn" /\ ui.prompt # "")
          => \E i \in DOMAIN conversationHistory :
                conversationHistory[i] = Piece("user", Len(workers) + 1, nEvents)
    /\ \A w \in Generating :
          \E i \in DOMAIN conversationHistory :
             conversationHistory[i].kind = "user" /\ conversationHistory[i].w = w
    /\ \A j \in DOMAIN conversationHistory :
          conversationHistory[j].kind # "user"
          => \E i \in 1..(j - 1) :
                /\ conversationHistory[i].kind = "user"
                /\ conversationHistory[i].w = conversationHistory[j].w

\* A reply has its prefix, a chunk and its terminator in the log.
C12_Witness ==
    \E j \in DOMAIN conversationHistory :
        /\ conversationHistory[j].kind = "end"
        /\ \E i \in 1..(j - 1) : conversationHistory[i].kind = "chunk"
                                  /\ conversationHistory[i].w = conversationHistory[j].w

C15_ReplyIsExactConcatenation ==
    \A w \in DOMAIN workers :
        (workers[w].pc = "term" /\ workers[w].why = "done")
        => \E j \in DOMAIN conversationHistory :
              /\ conversationHistory[j] = Piece("model", w, 0)
              /\ SubSeq(conversationHistory, j + 1, Len(conversationHistory))
                    = [i \in 1..workers[w].sent |-> Piece("chunk", w, i)]

\* The response chunks of task w that are in the log, in log order.
ChunksOf(w) == SelectSeq(conversationHistory, LAMBDA q : q.kind = "chunk" /\ q.w = w)

\* stopLLM is past llmFuture.wait(): in its sendPrompt("", false) or at line 183.
InStopAfterWait ==
    \/ ui.pc = "st_finish"
    \/ /\ ui.pc \in {"sp_begin", "sp_spawn", "sp_assign"}
       /\ ui.stack # << >>
       /\ Head(ui.stack) = "st_finish"

\* C16: a task that left its loop because the stop flag was set has appended a
\* prefix 1..m of the chunks the server sent (m no more than were sent), closes
\* its pipe once, and is finished before stopLLM goes on past its wait; no
\* generation and no open pipe remains from then on in stopLLM.
C16_StopYieldsPrefixAndJoin ==
    /\ \A w \in DOMAIN workers :
          workers[w].why = "stop"
          => /\ ChunksOf(w) = [i \in 1..Len(ChunksOf(w)) |-> Piece("chunk", w, i)]
             /\ Len(ChunksOf(w)) <= replyLines
             /\ workers[w].pc = "term"
                   => (Len(ChunksOf(w)) <= workers[w].sent /\ workers[w].pipe = "open")
             /\ workers[w].pc = "tail" => workers[w].pipe = "closed"
    /\ InStopAfterWait
          => /\ Generating = {}
             /\ \A w \in DOMAIN workers : workers[w].pipe # "open"

\* stopLLM waits for a task that has left its loop on the stop flag after the
\* server sent more chunks than the task had appended.
C16_Witness ==
    /\ ui.pc = "st_wait"
    /\ \E w \in DOMAIN workers :
          /\ workers[w].pc = "term" /\ workers[w].why = "stop"
          /\ Len(ChunksOf(w)) = ChunkFlushThreshold
          /\ workers[w].sent > ChunkFlushThreshold

\* C18: in stopLLM (and so on shutdown with a model running) the stop flag is
\* set while the in-flight task is waited for, and the unload request
\* (sendPrompt("", false)) is issued only from stopLLM after that wait, when no
\* generation is running.
C18_StopWaitThenUnload ==
    /\ ui.pc = "st_wait" => stopRequested
    /\ (ui.pc \in {"sp_begin", "sp_spawn", "sp_assign"} /\ ~ui.keepAlive)
          => /\ ui.stack # << >> /\ Head(ui.stack) = "st_finish"
             /\ Generating = {}
    /\ \A w \in Running :
          (workers[w].prompt = "" /\ ~workers[w].keepAlive /\ InStopAfterWait)
          => Generating = {}

\* The shutdown thread has set the stop flag and waits for a generation in flight.
C18_Witness ==
    /\ isShuttingDown /\ showShutdownWindow
    /\ ui.pc = "st_wait" /\ stopRequested
    /\ llmFuture # NULL /\ llmFuture \in Generating
    /\ workers[llmFuture].pc = "loop"

\* C19: every thread started for a load or a prompt has terminated and been
\* joined by the time the process ends: none is still running when main returns.
C19_NoThreadOrphaned ==
    [][exitApp => /\ \A l \in DOMAIN loaders : loaders[l].pc = "done"
                  /\ Running = {}]_vars

\* s is an initial segment of t.
IsPrefix(s, t) == Len(s) <= Len(t) /\ SubSeq(t, 1, Len(s)) = s

\* C20: every step other than the reset in startLLM leaves the previous log as
\* a prefix of the new one; in particular what a reply had appended before the
\* stream failed (end of file without a done line) or was stopped stays.
C20_LogAppendOnly ==
    [][startLLM_Set \/ IsPrefix(conversationHistory, conversationHistory')]_vars

\* A reply broke off at end of file after a batch of chunks had been appended:
\* the task has added the terminator, and the batch is still in the log.
C20_Witness ==
    \E w \in DOMAIN workers :
        /\ workers[w].pc = "tail" /\ workers[w].why = "eof"
        /\ Len(ChunksOf(w)) = ChunkFlushThreshold
        /\ conversationHistory[Len(conversationHistory)] = Piece("end", w, 0)

\* Tasks of non-empty prompts whose streamLLMResponse has returned without a
\* pipe: the request file or the pipe could not be opened.
ChannelFailed == {w \in Generating : workers[w].pc = "tail" /\ workers[w].pipe = "none"}

\* C21: when the request file or the pipe cannot be opened, the User turn of
\* the prompt is in the log, nothing of a Model turn of that task is, the task
\* has left streamLLMResponse, and its last step sets the waiting flag to false.
C21_ChannelFailureKeepsUserTurn ==
    /\ [](\A w \in ChannelFailed :
            /\ \E i \in DOMAIN conversationHistory :
                  conversationHistory[i].kind = "user" /\ conversationHistory[i].w = w
            /\ \A i \in DOMAIN conversationHistory :
                  conversationHistory[i].w = w => conversationHistory[i].kind = "user")
    /\ [][\A w \in ChannelFailed :
            workers'[w].pc = "done"
            => (~isWaitingForResponse' /\ UNCHANGED conversationHistory)]_vars

\* The first prompt's channel failed (its User turn is in the log, no Model
\* turn of it), and a later prompt got a complete reply.
C21_Witness ==
    /\ ioFailures = 1
    /\ 1 \in DOMAIN workers /\ workers[1].pc = "done"
    /\ \E i \in DOMAIN conversationHistory :
          conversationHistory[i].kind = "user" /\ conversationHistory[i].w = 1
    /\ \A i \in DOMAIN conversationHistory :
          conversationHistory[i].w = 1 => conversationHistory[i].kind = "user"
    /\ \E i \in DOMAIN conversationHistory :
          conversationHistory[i].kind = "end" /\ conversationHistory[i].w = 2

\* A step of sendPrompt called with an empty text, or of the task it started.
ControlStep ==
    \/ /\ ui.pc \in {"sp_begin", "sp_spawn", "sp_assign"}
       /\ ui.prompt = ""
       /\ ui' # ui
    \/ \E w \in Running :
          /\ workers[w].prompt = ""
          /\ workers'[w] # workers[w]

\* C22: a sendPrompt with empty text and its task never enter the consumer loop
\* or open a pipe, and none of their steps changes the conversation log or the
\* waiting flag.
C22_ControlMessageLeavesLog ==
    /\ [](\A w \in Running :
            workers[w].prompt = ""
            => (workers[w].pc \in {"file", "ctl", "tail"} /\ workers[w].pipe = "none"))
    /\ [][ControlStep => UNCHANGED <<conversationHistory, isWaitingForResponse>>]_vars

\* An empty prompt was submitted in the prompt window while a reply was being
\* streamed; its task has run curl and is about to end, the reply still runs.
C22_Witness ==
    /\ isWaitingForResponse
    /\ conversationHistory # << >>
    /\ \E w \in Running :
          /\ workers[w].prompt = "" /\ workers[w].keepAlive
          /\ workers[w].pc = "tail"
    /\ \E v \in Generating : workers[v].pc = "loop"

\* The steps that access conversationHistory inside a block that holds
\* std::lock_guard<std::mutex> lock(responseMutex): lines 203-206, 317-323,
\* 346-353, 360-363 and 380-384.
UnderResponseMutex ==
    \/ sendPrompt_Begin
    \/ \E w \in DOMAIN workers : stream_Popen(w) \/ stream_Read(w) \/ stream_Term(w)

\* C23: every step that writes the conversation log holds responseMutex.
C23_LogAccessUnderMutex ==
    [][conversationHistory' # conversationHistory => UnderResponseMutex]_vars

\* Tasks of stopLLM's sendPrompt("", false) whose unload request (keep_alive 0)
\* for a model other than the current one has not completed: the request file
\* is being written or curl runs.
UnloadPending ==
    {w \in DOMAIN workers : /\ ~workers[w].keepAlive
                            /\ workers[w].pc \in {"file", "ctl"}
                            /\ workers[w].llm # currentLLM}

\* The load thread of the last startLLM (the one for currentLLM) is running
\* its request.
LoadRequestRunning ==
    /\ isLLMRunning
    /\ loaders # << >>
    /\ loaders[Len(loaders)].pc = "curl"

\* C29: after startLLM(B) with A running, the load request for B does not run
\* while the unload request for A has not completed.
C29_UnloadCompletesBeforeLoad == ~(LoadRequestRunning /\ UnloadPending # {})

\* The threads between writing /tmp/ollama_request.json and removing it: a load
\* thread while system(curl) runs (lines 143-164), a task from the written
\* payload to std::remove (lines 285-301, 285-309 or 285-388).
RequestFileUsers ==
    {<<"load", l>> : l \in {k \in DOMAIN loaders : loaders[k].pc = "curl"}}
    \cup {<<"task", w>> : w \in {v \in DOMAIN workers :
                                   workers[v].pc \in {"ctl", "popen", "loop", "term"}}}

\* C30: at most one thread at a time is between its write of the request file
\* and its removal of it.
C30_RequestFileHasOneUser == Cardinality(RequestFileUsers) <= 1

\* C31: isWaitingForResponse is true while a task of a non-empty prompt runs,
\* and false when none runs and no handler is in progress.
C31_WaitingIffPromptRunning ==
    /\ Generating # {} => isWaitingForResponse
    /\ (Generating = {} /\ ui.pc = "idle") => ~isWaitingForResponse

\* C32: when the consumer loop of a task has exited (on the done line, on the
\* stop flag or at end of file), every response chunk it received is in the
\* conversation log and none is left in its buffer.
C32_NoBufferedChunkDropped ==
    \A w \in DOMAIN workers :
        workers[w].pc = "term"
        => /\ Len(ChunksOf(w)) = workers[w].sent
           /\ workers[w].acc = << >> \/ workers[w].why = "done"

\* The handler thread is inside startLLM and the availability check of lines
\* 103-115 has not passed: at line 99, in the stopLLM of line 100 (and its
\* sendPrompt), or at the check.
InStartLLMBeforeCheck ==
    \/ ui.pc \in {"sl_begin", "sl_check"}
    \/ \E i \in DOMAIN ui.stack : ui.stack[i] = "sl_check"

\* C33: a startLLM whose availability check fails leaves the running state as
\* it was: no step of the call up to and including the failed check changes
\* isLLMRunning or currentLLM, and none of its steps changes the log.
C33_FailedStartKeepsSession ==
    [][(InStartLLMBeforeCheck /\ ui' # ui)
        => UNCHANGED <<isLLMRunning, currentLLM, conversationHistory>>]_vars

\* ------------------------------------------------------------------------
\* Properties of ModelInterface::generateResponse (GenSpec)
\* ------------------------------------------------------------------------

\* C14: whenever generateResponse has returned, on whatever path, writeFd has
\* been closed exactly once.
C14_ClosedExactlyOnce ==
    gen.pc = "returned" => (gen.nClose = 1 /\ gen.writeFd = "closed")

\* C17: after the stop flag is set, generateResponse requests (samples) at most
\* one further token before it leaves its loop.
C17_StopObservedBetweenUnits ==
    gen.afterStop <= 1

\* ------------------------------------------------------------------------
\* Properties of ModelManager::fetchModels (FetchSpec)
\* ------------------------------------------------------------------------

\* C24: fetchModels returns MODEL_DIRECTORY_NOT_SET exactly when no directory
\* is configured; otherwise MODEL_DIRECTORY_DOES_NOT_EXIST exactly when the path
\* is absent; otherwise MODEL_PATH_ERROR exactly when the enumeration throws;
\* and a list only when the directory is configured, present and enumerable.
C24_ErrorPrecedence ==
    fetched.ret # "none"
    => /\ fetched.ret = "MODEL_DIRECTORY_NOT_SET" <=> fetched.dir = ""
       /\ fetched.ret = "MODEL_DIRECTORY_DOES_NOT_EXIST"
             <=> (fetched.dir # "" /\ fsys.status = "absent")
       /\ fetched.ret = "MODEL_PATH_ERROR"
             <=> (fetched.dir # "" /\ fsys.status = "present" /\ ~fsys.readable)
       /\ fetched.ret = "ok"
             <=> (fetched.dir # "" /\ fsys.status = "present" /\ fsys.readable)

\* fetchModels with no directory configured, on a file system where the path
\* "models" is absent as well: the first error wins.
C24_Witness ==
    /\ fetched.ret = "MODEL_DIRECTORY_NOT_SET"
    /\ fsys.status = "absent"

\* The model file names of DirEntries in alphabetical order.
AlphabeticalNames == <<"a.gguf", "b.gguf", "c.gguf", "d.gguf">>

NameRank(name) == CHOOSE i \in DOMAIN AlphabeticalNames : AlphabeticalNames[i] = name

\* C25: the list fetchModels returns is in alphabetical order of the names.
C25_SortedByName ==
    fetched.ret = "ok"
    => \A i \in 1..(Len(fetched.list) - 1) :
          NameRank(fetched.list[i][1]) <= NameRank(fetched.list[i + 1][1])

\* C26: fetchModels leaves m_loadedModel, m_modelMap and every ModelInterface
\* (its isLoaded flag with it) as they were.
C26_FetchModelsIsPureRead ==
    [][fetchModels => UNCHANGED <<m_loadedModel, m_modelMap, heap>>]_vars

C26_Witness ==
    /\ m_loadedModel # NULL
    /\ isLoaded(heap, m_loadedModel)
    /\ \E n \in Names : m_modelMap[n] \notin {NULL, m_loadedModel}
    /\ fetched.ret = "ok"
    /\ Len(fetched.list) >= 2

\* ------------------------------------------------------------------------
\* Properties of ContextManager (CtxSpec)
\* ------------------------------------------------------------------------

\* C34: after any sequence of addFile, removeFile and clearAll the vectors
\* files and fileNames have the same length and fileNames[i] is the file name
\* of files[i]; removeFile with an index out of range changes neither vector.
C34_NamesFollowFiles ==
    /\ [](/\ Len(fileNames) = Len(files)
          /\ \A i \in DOMAIN files : fileNames[i] = getFileNameFromPath(files[i]))
    /\ [][\A index \in 0..MaxFiles :
            (removeFile(index) /\ index >= Len(files)) => UNCHANGED <<files, fileNames>>]_vars

\* removeFile(0) on a full list left two files with different names.
C34_Witness ==
    /\ ctxCall = [op |-> "remove", index |-> 0, size |-> MaxFiles]
    /\ Len(files) = MaxFiles - 1
    /\ fileNames[1] # fileNames[2]
    /\ LastSeparator(files[1]) > 0

\* ------------------------------------------------------------------------
\* Properties of ModelInterface::formatPrompt (PromptSpec)
\* ------------------------------------------------------------------------

\* The message contents in a formatted text, in order.
ContentsOf(text) == SelectSeq(text, LAMBDA e : e[1] = "content")

\* C35: the text formatPrompt returns for the k-th sendPrompt of a session
\* holds the content of the k-th prompt and of no earlier one.
C35_ReturnsOnlyNewPrompt ==
    fmt.ret = "ok"
    => ContentsOf(fmt.isolatedPrompt)
          = << <<"content", fmt.m_messages[Len(fmt.m_messages)].content>> >>

====
